---- MODULE Spec2Model ----
(***************************************************************************)
(* Model of libarsc, the codec of Android's compiled resource tables       *)
(* (resources.arsc): fixed-width integers, the chunk header, string pools, *)
(* typeSpec/type chunks, packages and the table.                           *)
(*                                                                         *)
(* Byte strings are sequences of 0..255.  A decoder is an operator that    *)
(* returns [ok, val, rest, err]: ok = FALSE stands for the Python          *)
(* exception named by err.  Every slice is Python's slice, negative and    *)
(* out-of-range indices included.                                          *)
(***************************************************************************)
EXTENDS Integers, Sequences, FiniteSets, TLC

VARIABLES kind, arg, input, pc, dec, enc, dec2, heap

vars == <<kind, arg, input, pc, dec, enc, dec2, heap>>

----------------------------------------------------------------------------
(* Results of operations that may raise *)

Ok(v, r) == [ok |-> TRUE, val |-> v, rest |-> r, err |-> "none"]

Err(e) == [ok |-> FALSE, val |-> <<>>, rest |-> <<>>, err |-> e]

None == [ok |-> FALSE, val |-> <<>>, rest |-> <<>>, err |-> "not run"]

\* F applied to the value of e, e being evaluated once
Bind(e, F(_)) == CHOOSE y \in { F(v) : v \in {e} } : TRUE

\* the statements F that follow a call e: skipped when e raised, the
\* exception propagating to the caller
Then(e, F(_)) == Bind(e, LAMBDA r : IF r.ok THEN F(r) ELSE r)

----------------------------------------------------------------------------
(* Python's bytes slices b[:n] and b[n:] *)

Min(a, b) == IF a < b THEN a ELSE b

Max(a, b) == IF a > b THEN a ELSE b

\* the index a slice bound n denotes in a sequence of length len
SliceIndex(n, len) == IF n >= 0 THEN Min(n, len) ELSE Max(len + n, 0)

\* b[:n]
PyTake(b, n) == SubSeq(b, 1, SliceIndex(n, Len(b)))

\* b[n:]
PyDrop(b, n) == SubSeq(b, SliceIndex(n, Len(b)) + 1, Len(b))

\* bytes(n): n zero bytes (n >= 0)
Zeros(n) == [i \in 1..n |-> 0]

\* bytes(reversed(b))
Reversed(b) == [i \in 1..Len(b) |-> b[Len(b) + 1 - i]]

----------------------------------------------------------------------------
(* struct.pack / struct.unpack of an unsigned integer of w bytes *)

RECURSIVE UnpackLE(_)
UnpackLE(h) == IF h = <<>> THEN 0 ELSE Head(h) + 256 * UnpackLE(Tail(h))

RECURSIVE UnpackBE(_)
UnpackBE(h) ==
    IF h = <<>> THEN 0 ELSE UnpackBE(SubSeq(h, 1, Len(h) - 1)) * 256 + h[Len(h)]

RECURSIVE PackLE(_, _)
PackLE(n, w) == IF w = 0 THEN <<>> ELSE <<n % 256>> \o PackLE(n \div 256, w - 1)

PackBE(n, w) == Reversed(PackLE(n, w))

----------------------------------------------------------------------------
(* uint8, uint16, uint32, uint64: an object holds its integer and the byte *)
(* order it is written in (little / _endian)                               *)

uint(i, l) == [integer |-> i, little |-> l]

\* uintN.__bytes__
uint_bytes(w, u) == IF u.little THEN PackLE(u.integer, w) ELSE PackBE(u.integer, w)

\* uintN.__eq__
uint_eq(a, b) == a.integer = b.integer

\* the same read without struct.unpack's length check
uint_from_bytes_unchecked(w, b, little) ==
    LET h == PyTake(b, w)
    IN  Ok(uint(IF little THEN UnpackLE(h) ELSE UnpackBE(h),
                IF w = 1 THEN FALSE ELSE little),
           PyDrop(b, w))

\* uint16/32/64.from_bytes(b, little); uint8.from_bytes drops the flag
uint_from_bytes(w, b, little) ==
    LET h == PyTake(b, w)
    IN  IF Len(h) < w THEN Err("struct.error")
        ELSE Ok(uint(IF little THEN UnpackLE(h) ELSE UnpackBE(h),
                     IF w = 1 THEN FALSE ELSE little),
                PyDrop(b, w))

----------------------------------------------------------------------------
(* ResourceType: the chunk kinds.  A type is held as its 16-bit value.     *)

RES_NULL_TYPE == 0

RES_STRING_POOL_TYPE == 1

RES_TABLE_TYPE == 2

RES_XML_TYPE == 3

RES_XML_START_NAMESPACE_TYPE == 256

RES_XML_END_NAMESPACE_TYPE == 257

RES_XML_START_ELEMENT_TYPE == 258

RES_XML_END_ELEMENT_TYPE == 259

RES_XML_CDATA_TYPE == 260

RES_XML_LAST_CHUNK_TYPE == 383

RES_XML_RESOURCE_MAP_TYPE == 384

RES_TABLE_PACKAGE_TYPE == 512

RES_TABLE_TYPE_TYPE == 513

RES_TABLE_TYPE_SPEC_TYPE == 514

ResourceType ==
    { RES_NULL_TYPE, RES_STRING_POOL_TYPE, RES_TABLE_TYPE, RES_XML_TYPE,
      RES_XML_START_NAMESPACE_TYPE, RES_XML_END_NAMESPACE_TYPE,
      RES_XML_START_ELEMENT_TYPE, RES_XML_END_ELEMENT_TYPE, RES_XML_CDATA_TYPE,
      RES_XML_LAST_CHUNK_TYPE, RES_XML_RESOURCE_MAP_TYPE, RES_TABLE_PACKAGE_TYPE,
      RES_TABLE_TYPE_TYPE, RES_TABLE_TYPE_SPEC_TYPE }

\* ResourceType.from_bytes(b, little): two bytes (ResourceTypeTests
\* test_frombytes); a value that is no member of the enumeration is a
\* ValueError
ResourceType_from_bytes(b, little) ==
    Then(uint_from_bytes(2, b, little), LAMBDA r :
        IF r.val.integer \in ResourceType THEN Ok(r.val.integer, r.rest)
        ELSE Err("ValueError"))

\* Enum.__bytes__: two bytes, big-endian
ResourceType_bytes(t) == PackBE(t, 2)

----------------------------------------------------------------------------
(* ResChunk_header *)

ResChunk_header_len == 8

\* ResChunk_header.__init__ with a ResourceType, a uint16 and a uint32
ResChunk_header(chunkType, headerSize, size) ==
    [type |-> chunkType, headerSize |-> headerSize, size |-> size]

\* ResChunk_header.__init__ with plain integers
ResChunk_header_of(chunkType, headerSize, size) ==
    ResChunk_header(chunkType, uint(headerSize, TRUE), uint(size, TRUE))

ResChunk_header_eq(a, b) ==
    a.type = b.type /\ uint_eq(a.headerSize, b.headerSize) /\ uint_eq(a.size, b.size)

ResChunk_header_bytes_bigtype(h) ==
    ResourceType_bytes(h.type) \o uint_bytes(2, h.headerSize) \o uint_bytes(4, h.size)

ResChunk_header_bytes(h) ==
    Reversed(ResourceType_bytes(h.type)) \o uint_bytes(2, h.headerSize)
        \o uint_bytes(4, h.size)

ResChunk_header_from_bytes(b, little) ==
    Then(ResourceType_from_bytes(b, TRUE), LAMBDA t :
    Then(uint_from_bytes(2, t.rest, TRUE), LAMBDA hs :
    Then(uint_from_bytes(4, hs.rest, TRUE), LAMBDA sz :
        Ok(ResChunk_header(t.val, hs.val, sz.val), sz.rest))))

----------------------------------------------------------------------------
(* ResStringPool_header *)

ChunkHeaderWrongTypeException == "ChunkHeaderWrongTypeException"

\* Flags.from_bytes(b, little): the flags word, four bytes; Flags.MAX makes
\* every 32-bit value a combination of members
Flags_from_bytes(b, little) ==
    Then(uint_from_bytes(4, b, little), LAMBDA r : Ok(r.val.integer, r.rest))

\* Flag.__bytes__: four bytes, big-endian
Flags_bytes(f) == PackBE(f, 4)

ResStringPool_header_len == 28

ResStringPool_header_init_unchecked(header, stringCount, styleCount, flags, stringsStart, stylesStart) ==
    Ok([header |-> header, stringCount |-> stringCount, styleCount |-> styleCount,
        flags |-> flags, stringsStart |-> stringsStart,
        stylesStart |-> stylesStart], <<>>)

ResStringPool_header_init(header, stringCount, styleCount, flags, stringsStart, stylesStart) ==
    IF header.type # RES_STRING_POOL_TYPE THEN Err(ChunkHeaderWrongTypeException)
    ELSE Ok([header |-> header, stringCount |-> stringCount,
             styleCount |-> styleCount, flags |-> flags,
             stringsStart |-> stringsStart, stylesStart |-> stylesStart], <<>>)

ResStringPool_header_eq(a, b) ==
    /\ ResChunk_header_eq(a.header, b.header)
    /\ uint_eq(a.stringCount, b.stringCount)
    /\ uint_eq(a.styleCount, b.styleCount)
    /\ a.flags = b.flags
    /\ uint_eq(a.stringsStart, b.stringsStart)
    /\ uint_eq(a.stylesStart, b.stylesStart)

ResStringPool_header_bytes(h) ==
    ResChunk_header_bytes(h.header) \o uint_bytes(4, h.stringCount)
        \o uint_bytes(4, h.styleCount) \o Reversed(Flags_bytes(h.flags))
        \o uint_bytes(4, h.stringsStart) \o uint_bytes(4, h.stylesStart)

ResStringPool_header_from_bytes(b) ==
    Then(ResChunk_header_from_bytes(b, TRUE), LAMBDA header :
    Then(uint_from_bytes(4, header.rest, TRUE), LAMBDA stringCount :
    Then(uint_from_bytes(4, stringCount.rest, TRUE), LAMBDA styleCount :
    Then(Flags_from_bytes(styleCount.rest, TRUE), LAMBDA flags :
    Then(uint_from_bytes(4, flags.rest, TRUE), LAMBDA stringsStart :
    Then(uint_from_bytes(4, stringsStart.rest, TRUE), LAMBDA stylesStart :
    Then(ResStringPool_header_init(header.val, stringCount.val, styleCount.val,
                                   flags.val, stringsStart.val, stylesStart.val),
         LAMBDA obj : Ok(obj.val, stylesStart.rest))))))))

----------------------------------------------------------------------------
(* ResStringPool *)

\* ResStringPool._split_fixed_list(buf, count, uint32): [ok, val, rest, err]
RECURSIVE split_fixed_list(_, _)
split_fixed_list(buf, count) ==
    IF count = 0 THEN Ok(<<>>, buf)
    ELSE Then(uint_from_bytes(4, buf, TRUE), LAMBDA e :
         Then(split_fixed_list(e.rest, count - 1), LAMBDA more :
             Ok(<<e.val>> \o more.val, more.rest)))

\* ResStringPool._split_variable_length_strings(buf, length_list)
RECURSIVE split_variable_length_strings(_, _)
split_variable_length_strings(buf, length_list) ==
    IF length_list = <<>> THEN <<>>
    ELSE Bind(PyDrop(buf, Head(length_list)), LAMBDA tail :
             <<PyTake(buf, Head(length_list))>>
                 \o split_variable_length_strings(tail, Tail(length_list)))

\* one length per offset, the first counted from the start of the blob
offsets_to_length_from_zero(o) ==
    [i \in 1..Len(o) |-> IF i = 1 THEN o[1].integer
                         ELSE o[i].integer - o[i - 1].integer]

\* ResStringPool._offsets_to_length(o)
offsets_to_length(o) ==
    [i \in 1..(Len(o) - 1) |-> o[i + 1].integer - o[i].integer]

\* ResStringPool.__init__ on lists of uint32: the loops at lines 212-214 and
\* 219-221 both run over strrefs, and set their byte order to little
ResStringPool_init(header, strrefs, stylerefs, strings, styles) ==
    [header |-> header,
     strrefs |-> [i \in 1..Len(strrefs) |-> uint(strrefs[i].integer, TRUE)],
     stylerefs |-> stylerefs, strings |-> strings, styles |-> styles]

uint_list_eq(a, b) ==
    Len(a) = Len(b) /\ \A i \in 1..Len(a) : uint_eq(a[i], b[i])

ResStringPool_eq(a, b) ==
    /\ ResStringPool_header_eq(a.header, b.header)
    /\ uint_list_eq(a.strrefs, b.strrefs)
    /\ a.strings = b.strings
    /\ uint_list_eq(a.stylerefs, b.stylerefs)
    /\ a.styles = b.styles

RECURSIVE Concat(_)
Concat(ss) == IF ss = <<>> THEN <<>> ELSE Head(ss) \o Concat(Tail(ss))

uint32_list_bytes(l) == Concat([i \in 1..Len(l) |-> uint_bytes(4, l[i])])

ResStringPool_bytes(p) ==
    ResStringPool_header_bytes(p.header) \o uint32_list_bytes(p.strrefs)
        \o uint32_list_bytes(p.stylerefs) \o Concat(p.strings) \o Concat(p.styles)

\* count * len(uint32(0)).  A count above SliceCap is taken as SliceCap:
\* the product only bounds slices of buffers far shorter than that.
SliceCap == 1048576

RefsLen(count) == Min(count, SliceCap) * 4

ResStringPool_slices(b0, header, b) ==
    LET size == header.header.size.integer
        content == PyTake(b0, size)
        strrefslen == RefsLen(header.stringCount.integer)
        stylerefslen == RefsLen(header.styleCount.integer)
        b1 == IF strrefslen > 0 THEN PyDrop(b, strrefslen) ELSE b
    IN  [rest |-> PyDrop(b0, size),
         strrefs_b |-> IF strrefslen > 0 THEN PyTake(b, strrefslen) ELSE <<>>,
         strings_b |-> IF strrefslen > 0
                       THEN PyDrop(content, header.stringsStart.integer) ELSE <<>>,
         stylerefs_b |-> IF stylerefslen > 0 THEN PyTake(b1, stylerefslen) ELSE <<>>,
         styles_b |-> IF stylerefslen > 0
                      THEN PyDrop(content, header.stylesStart.integer) ELSE <<>>]

ResStringPool_from_bytes(b0) ==
    Then(ResStringPool_header_from_bytes(b0), LAMBDA hdr :
    Bind(ResStringPool_slices(b0, hdr.val, hdr.rest), LAMBDA s :
    Then(split_fixed_list(s.strrefs_b, hdr.val.stringCount.integer), LAMBDA strrefs :
    IF Len(strrefs.rest) > 0 THEN Err("String pool inconsistent") ELSE
    Then(split_fixed_list(s.stylerefs_b, hdr.val.styleCount.integer),
         LAMBDA stylerefs :
    IF Len(stylerefs.rest) > 0 THEN Err("Style span pool inconsistent") ELSE
    Bind(offsets_to_length(strrefs.val \o <<uint(Len(s.strings_b), FALSE)>>),
         LAMBDA strlengths :
    Bind(offsets_to_length(stylerefs.val \o <<uint(Len(s.styles_b), FALSE)>>),
         LAMBDA stylelengths :
        Ok(ResStringPool_init(hdr.val, strrefs.val, stylerefs.val,
               split_variable_length_strings(s.strings_b, strlengths),
               split_variable_length_strings(s.styles_b, stylelengths)),
           s.rest)))))))

----------------------------------------------------------------------------
(* ResTable_typeSpec_header and ResTable_typeSpec *)

ResTable_typeSpec_header_len == 16

ResTable_typeSpec_header_init(header, id, res0, res1, entryCount) ==
    IF header.type # RES_TABLE_TYPE_SPEC_TYPE THEN Err(ChunkHeaderWrongTypeException)
    ELSE Ok([header |-> header, id |-> id, res0 |-> res0, res1 |-> res1,
             entryCount |-> entryCount], <<>>)

ResTable_typeSpec_header_eq(a, b) ==
    /\ ResChunk_header_eq(a.header, b.header)
    /\ uint_eq(a.id, b.id)
    /\ uint_eq(a.res0, b.res0)
    /\ uint_eq(a.res1, b.res1)
    /\ uint_eq(a.entryCount, b.entryCount)

ResTable_typeSpec_header_bytes(h) ==
    ResChunk_header_bytes(h.header) \o uint_bytes(1, h.id) \o uint_bytes(1, h.res0)
        \o uint_bytes(2, h.res1) \o uint_bytes(4, h.entryCount)

ResTable_typeSpec_header_from_bytes(b) ==
    Then(ResChunk_header_from_bytes(b, TRUE), LAMBDA header :
    Then(uint_from_bytes(1, header.rest, FALSE), LAMBDA id :
    Then(uint_from_bytes(1, id.rest, FALSE), LAMBDA res0 :
    Then(uint_from_bytes(2, res0.rest, TRUE), LAMBDA res1 :
    Then(uint_from_bytes(4, res1.rest, TRUE), LAMBDA entryCount :
    Then(ResTable_typeSpec_header_init(header.val, id.val, res0.val, res1.val,
                                       entryCount.val),
         LAMBDA obj : Ok(obj.val, entryCount.rest)))))))

\* ResTable_typeSpec(header, configs)
ResTable_typeSpec_init(header, configs) ==
    [cls |-> "ResTable_typeSpec", header |-> header, body |-> configs]

ResTable_typeSpec_bytes(s) == ResTable_typeSpec_header_bytes(s.header) \o s.body

\* the body cut at b[headerSize : size], the remainder at b[size:]
ResTable_typeSpec_from_bytes_by_size(b) ==
    Then(ResTable_typeSpec_header_from_bytes(b), LAMBDA header :
        Ok(ResTable_typeSpec_init(header.val,
               PyDrop(PyTake(b, header.val.header.size.integer),
                      header.val.header.headerSize.integer)),
           PyDrop(b, header.val.header.size.integer)))

ResTable_typeSpec_from_bytes(b) ==
    Then(ResTable_typeSpec_header_from_bytes(b), LAMBDA header :
    Bind(header.val.header.size.integer - header.val.header.headerSize.integer,
         LAMBDA restlen :
        Ok(ResTable_typeSpec_init(header.val, PyTake(header.rest, restlen)),
           PyDrop(header.rest, restlen))))

----------------------------------------------------------------------------
(* ResTable_config *)

ResTable_config_default_size == 48

\* ResTable_config(size) with a uint32: notimpl = bytes(size - 4), a
\* ValueError when size - 4 is negative
ResTable_config_init(size) ==
    IF size.integer - 4 < 0 THEN Err("ValueError")
    ELSE Ok([size |-> size, notimpl |-> Zeros(size.integer - 4)], <<>>)

\* ResTable_config.__eq__ compares the size alone
ResTable_config_eq(a, b) == uint_eq(a.size, b.size)

ResTable_config_bytes(c) == uint_bytes(4, c.size) \o c.notimpl

ResTable_config_from_bytes(b) ==
    Then(uint_from_bytes(4, b, TRUE), LAMBDA size :
    Bind(size.val.integer - 4, LAMBDA restlen :
        \* obj = ResTable_config(size) raises as ResTable_config_init does;
        \* the zero bytes it stores are replaced at once by obj.notimpl = notimpl
        IF restlen < 0 THEN Err("ValueError")
        ELSE Ok([size |-> size.val, notimpl |-> PyTake(size.rest, restlen)],
                PyDrop(size.rest, restlen))))

----------------------------------------------------------------------------
(* ResTable_type_header and ResTable_type *)

ResTable_type_header_len == 68

ResTable_type_header_init(header, id, res0, res1, entryCount, entriesStart, config) ==
    IF header.type # RES_TABLE_TYPE_TYPE THEN Err(ChunkHeaderWrongTypeException)
    ELSE Ok([header |-> header, id |-> id, res0 |-> res0, res1 |-> res1,
             entryCount |-> entryCount, entriesStart |-> entriesStart,
             config |-> config], <<>>)

ResTable_type_header_eq(a, b) ==
    /\ ResChunk_header_eq(a.header, b.header)
    /\ uint_eq(a.id, b.id)
    /\ uint_eq(a.res0, b.res0)
    /\ uint_eq(a.res1, b.res1)
    /\ uint_eq(a.entryCount, b.entryCount)
    /\ uint_eq(a.entriesStart, b.entriesStart)
    /\ ResTable_config_eq(a.config, b.config)

ResTable_type_header_bytes(h) ==
    ResChunk_header_bytes(h.header) \o uint_bytes(1, h.id) \o uint_bytes(1, h.res0)
        \o uint_bytes(2, h.res1) \o uint_bytes(4, h.entryCount)
        \o uint_bytes(4, h.entriesStart) \o ResTable_config_bytes(h.config)

ResTable_type_header_from_bytes(b) ==
    Then(ResChunk_header_from_bytes(b, TRUE), LAMBDA header :
    Then(uint_from_bytes(1, header.rest, FALSE), LAMBDA id :
    Then(uint_from_bytes(1, id.rest, FALSE), LAMBDA res0 :
    Then(uint_from_bytes(2, res0.rest, TRUE), LAMBDA res1 :
    Then(uint_from_bytes(4, res1.rest, TRUE), LAMBDA entryCount :
    Then(uint_from_bytes(4, entryCount.rest, TRUE), LAMBDA entriesStart :
    Then(ResTable_config_from_bytes(entriesStart.rest), LAMBDA config :
    Then(ResTable_type_header_init(header.val, id.val, res0.val, res1.val,
                                   entryCount.val, entriesStart.val, config.val),
         LAMBDA obj : Ok(obj.val, config.rest)))))))))

\* ResTable_type(header, rest)
ResTable_type_init(header, rest) ==
    [cls |-> "ResTable_type", header |-> header, body |-> rest]

ResTable_type_bytes(t) == ResTable_type_header_bytes(t.header) \o t.body

ResTable_type_from_bytes(b) ==
    Then(ResTable_type_header_from_bytes(b), LAMBDA header :
    Bind(header.val.header.size.integer - header.val.header.headerSize.integer,
         LAMBDA restlen :
        Ok(ResTable_type_init(header.val, PyTake(header.rest, restlen)),
           PyDrop(header.rest, restlen))))

\* ResTable_typeSpec.__eq__ / ResTable_type.__eq__, by class
TypeChunk_eq(a, b) ==
    /\ a.cls = b.cls
    /\ IF a.cls = "ResTable_typeSpec"
       THEN ResTable_typeSpec_header_eq(a.header, b.header)
       ELSE ResTable_type_header_eq(a.header, b.header)
    /\ a.body = b.body

\* bytes(obj) of an element of a group
TypeChunk_bytes(c) ==
    IF c.cls = "ResTable_typeSpec" THEN ResTable_typeSpec_bytes(c)
    ELSE ResTable_type_bytes(c)

----------------------------------------------------------------------------
(* ResTable_package_header *)

MAX_NAME_LEN == 128

ResTable_package_header_len == 288

\* A name argument: [isBytes, data].  isBytes = FALSE is a str argument.
BytesName(data) == [isBytes |-> TRUE, data |-> data]

ResTable_package_header_init_nocheck(header, id, name, typeStrings, lastPublicType, keyStrings, lastPublicKey) ==
    IF header.type # RES_TABLE_PACKAGE_TYPE THEN Err(ChunkHeaderWrongTypeException)
    ELSE IF ~name.isBytes THEN Err("name must be of type bytes")
    ELSE IF Len(name.data) > MAX_NAME_LEN * 2
         THEN Err("name is longer than maximum")
    ELSE Ok([header |-> header, id |-> id,
             name |-> name.data \o Zeros(MAX_NAME_LEN * 2 - Len(name.data)),
             typeStrings |-> typeStrings, lastPublicType |-> lastPublicType,
             keyStrings |-> keyStrings, lastPublicKey |-> lastPublicKey], <<>>)

ResTable_package_header_init(header, id, name, typeStrings, lastPublicType, keyStrings, lastPublicKey) ==
    IF header.type # RES_TABLE_PACKAGE_TYPE THEN Err(ChunkHeaderWrongTypeException)
    ELSE IF ~name.isBytes THEN Err("name must be of type bytes")
    ELSE IF Len(name.data) > MAX_NAME_LEN * 2
         THEN Err("name is longer than maximum")
    ELSE IF PyDrop(name.data, -2) # <<0, 0>>
         THEN Err("name does not end with NULL")
    ELSE Ok([header |-> header, id |-> id,
             name |-> name.data \o Zeros(MAX_NAME_LEN * 2 - Len(name.data)),
             typeStrings |-> typeStrings, lastPublicType |-> lastPublicType,
             keyStrings |-> keyStrings, lastPublicKey |-> lastPublicKey], <<>>)

ResTable_package_header_eq(a, b) ==
    /\ ResChunk_header_eq(a.header, b.header)
    /\ uint_eq(a.id, b.id)
    /\ a.name = b.name
    /\ uint_eq(a.typeStrings, b.typeStrings)
    /\ uint_eq(a.lastPublicType, b.lastPublicType)
    /\ uint_eq(a.keyStrings, b.keyStrings)
    /\ uint_eq(a.lastPublicKey, b.lastPublicKey)

ResTable_package_header_bytes(h) ==
    ResChunk_header_bytes(h.header) \o uint_bytes(4, h.id) \o h.name
        \o uint_bytes(4, h.typeStrings) \o uint_bytes(4, h.lastPublicType)
        \o uint_bytes(4, h.keyStrings) \o uint_bytes(4, h.lastPublicKey)
        \o Zeros(4)

ResTable_package_header_from_bytes(b) ==
    Then(ResChunk_header_from_bytes(b, TRUE), LAMBDA header :
    Then(uint_from_bytes(4, header.rest, TRUE), LAMBDA id :
    Bind(PyTake(id.rest, 256), LAMBDA name :
    Then(uint_from_bytes(4, PyDrop(id.rest, 256), TRUE), LAMBDA typeStrings :
    Then(uint_from_bytes(4, typeStrings.rest, TRUE), LAMBDA lastPublicType :
    Then(uint_from_bytes(4, lastPublicType.rest, TRUE), LAMBDA keyStrings :
    Then(uint_from_bytes(4, keyStrings.rest, TRUE), LAMBDA lastPublicKey :
    Then(ResTable_package_header_init(header.val, id.val, BytesName(name),
             typeStrings.val, lastPublicType.val, keyStrings.val,
             lastPublicKey.val),
         LAMBDA obj : Ok(obj.val, PyDrop(lastPublicKey.rest, 4))))))))))

----------------------------------------------------------------------------
(* ResTable_package.  A group of types is [none, items]: none = TRUE is    *)
(* Python's None, the value of spec before the first typeSpec chunk.       *)

NoGroup == [none |-> TRUE, items |-> <<>>]

Group(items) == [none |-> FALSE, items |-> items]

ResTable_package_init(header, typeStrings, keyStrings, types) ==
    [header |-> header, typeStrings |-> typeStrings, keyStrings |-> keyStrings,
     types |-> types]

Group_eq(a, b) ==
    /\ a.none = b.none
    /\ Len(a.items) = Len(b.items)
    /\ \A i \in 1..Len(a.items) : TypeChunk_eq(a.items[i], b.items[i])

ResTable_package_eq(a, b) ==
    /\ ResTable_package_header_eq(a.header, b.header)
    /\ ResStringPool_eq(a.typeStrings, b.typeStrings)
    /\ ResStringPool_eq(a.keyStrings, b.keyStrings)
    /\ Len(a.types) = Len(b.types)
    /\ \A i \in 1..Len(a.types) : Group_eq(a.types[i], b.types[i])

Group_bytes(g) == Concat([i \in 1..Len(g.items) |-> TypeChunk_bytes(g.items[i])])

\* ResTable_package.__bytes__: iterating a group that is None is a TypeError
ResTable_package_bytes(p) ==
    IF \E i \in 1..Len(p.types) : p.types[i].none THEN Err("TypeError")
    ELSE Ok(ResTable_package_header_bytes(p.header)
                \o ResStringPool_bytes(p.typeStrings)
                \o ResStringPool_bytes(p.keyStrings)
                \o Concat([i \in 1..Len(p.types) |-> Group_bytes(p.types[i])]),
            <<>>)

\* the while loop of ResTable_package.from_bytes (lines 236-251), from the
\* scan buffer b with the groups closed so far and the open group spec;
\* val is the final list types
RECURSIVE ScanTypes(_, _, _)
ScanTypes(b, types, spec) ==
    IF Len(b) = 0 THEN Ok(types \o <<spec>>, <<>>) ELSE
    Then(ResChunk_header_from_bytes(b, TRUE), LAMBDA hdr :
        IF hdr.val.type = RES_TABLE_TYPE_SPEC_TYPE THEN
            Then(ResTable_typeSpec_from_bytes(b), LAMBDA typeSpec :
                ScanTypes(typeSpec.rest,
                          IF spec.none THEN types ELSE types \o <<spec>>,
                          Group(<<typeSpec.val>>)))
        ELSE IF hdr.val.type = RES_TABLE_TYPE_TYPE THEN
            Then(ResTable_type_from_bytes(b), LAMBDA typ :
                IF spec.none THEN Err("AttributeError")
                ELSE ScanTypes(typ.rest, types, Group(spec.items \o <<typ.val>>)))
        ELSE Err(ChunkHeaderWrongTypeException))

\* the longer of the two tails
ScanStart_longer(at, ak) == IF Len(ak) < Len(at) THEN at ELSE ak

\* the scan buffer: the shorter of the two tails left by the string pools
ScanStart(at, ak) == IF Len(ak) < Len(at) THEN ak ELSE at

ResTable_package_from_bytes(b0) ==
    Then(ResTable_package_header_from_bytes(b0), LAMBDA header :
    Bind(PyTake(b0, header.val.header.size.integer), LAMBDA content :
    Then(ResStringPool_from_bytes(PyDrop(content, header.val.typeStrings.integer)),
         LAMBDA typeStrings :
    Then(ResStringPool_from_bytes(PyDrop(content, header.val.keyStrings.integer)),
         LAMBDA keyStrings :
    Then(ScanTypes(ScanStart(typeStrings.rest, keyStrings.rest), <<>>, NoGroup),
         LAMBDA types :
        Ok(ResTable_package_init(header.val, typeStrings.val, keyStrings.val,
                                 types.val),
           PyDrop(b0, header.val.header.size.integer)))))))

----------------------------------------------------------------------------
(* ResTable_header and ResTable *)

ResTable_header_len == 28

ResTable_header_init(header, packageCount) ==
    IF header.type # RES_TABLE_TYPE THEN Err(ChunkHeaderWrongTypeException)
    ELSE Ok([header |-> header, packageCount |-> packageCount], <<>>)

ResTable_header_eq(a, b) ==
    ResChunk_header_eq(a.header, b.header) /\ uint_eq(a.packageCount, b.packageCount)

ResTable_header_bytes(h) ==
    ResChunk_header_bytes(h.header) \o uint_bytes(4, h.packageCount)

ResTable_header_from_bytes(b) ==
    Then(ResChunk_header_from_bytes(b, TRUE), LAMBDA header :
    Then(uint_from_bytes(4, header.rest, TRUE), LAMBDA packageCount :
    Then(ResTable_header_init(header.val, packageCount.val),
         LAMBDA obj : Ok(obj.val, packageCount.rest))))

ResTable_init(header, values, packages) ==
    [header |-> header, values |-> values, packages |-> packages]

ResTable_eq(a, b) ==
    /\ ResTable_header_eq(a.header, b.header)
    /\ ResStringPool_eq(a.values, b.values)
    /\ Len(a.packages) = Len(b.packages)
    /\ \A i \in 1..Len(a.packages) : ResTable_package_eq(a.packages[i], b.packages[i])

\* ResTable.__bytes__: fails where a package's bytes() fails
ResTable_bytes(t) ==
    Bind([i \in 1..Len(t.packages) |-> ResTable_package_bytes(t.packages[i])],
         LAMBDA pk :
        IF \E i \in 1..Len(pk) : ~pk[i].ok THEN Err("TypeError")
        ELSE Ok(ResTable_header_bytes(t.header) \o ResStringPool_bytes(t.values)
                    \o Concat([i \in 1..Len(pk) |-> pk[i].val]), <<>>))

\* the for loop with every package decoded from the buffer the first one
\* starts at
RECURSIVE DecodePackages_same_buffer(_, _)
DecodePackages_same_buffer(b, count) ==
    IF count = 0 THEN Ok(<<>>, b)
    ELSE Then(ResTable_package_from_bytes(b), LAMBDA pkg :
         Then(DecodePackages_same_buffer(b, count - 1), LAMBDA more :
             Ok(<<pkg.val>> \o more.val, pkg.rest)))

\* the for loop of ResTable.from_bytes (lines 94-96): count packages from b
RECURSIVE DecodePackages(_, _)
DecodePackages(b, count) ==
    IF count = 0 THEN Ok(<<>>, b)
    ELSE Then(ResTable_package_from_bytes(b), LAMBDA pkg :
         Then(DecodePackages(pkg.rest, count - 1), LAMBDA more :
             Ok(<<pkg.val>> \o more.val, more.rest)))

ResTable_from_bytes(b) ==
    Then(ResTable_header_from_bytes(b), LAMBDA header :
    Then(ResStringPool_from_bytes(header.rest), LAMBDA values :
    Then(DecodePackages(values.rest, header.val.packageCount.integer),
         LAMBDA packages :
        Ok(ResTable_init(header.val, values.val, packages.val), packages.rest))))

----------------------------------------------------------------------------
(* Input buffers.  Fields are laid out little-endian, as in the test       *)
(* vectors of the repository.  Every byte drawn is below 128, so that any  *)
(* four of them, read as a uint32, stay below 2^31.                        *)

LE16(n) == PackLE(n, 2)

LE32(n) == PackLE(n, 4)

\* the bytes that follow a structure in its buffer (13 37 in the tests)
MaxTrail == 1

TrailBytes(t) == [i \in 1..t |-> IF i % 2 = 1 THEN 19 ELSE 55]

\* n payload bytes, all different, the first being first
Payload(first, n) == [i \in 1..n |-> first + i - 1]

MkChunkHeader(type, headerSize, size) == LE16(type) \o LE16(headerSize) \o LE32(size)

\* every sequence over S of length 0..n
SeqsUpTo(S, n) == UNION { [1..k -> S] : k \in 0..n }

----------------------------------------------------------------------------
(* String pool buffers: a 28-byte header, the ref words, a gap, a blob.    *)

MaxStrings == 2

MaxBlob == 3

MkPoolHeader(type, size, stringCount, styleCount, flags, stringsStart, stylesStart) ==
    MkChunkHeader(type, ResStringPool_header_len, size) \o LE32(stringCount)
        \o LE32(styleCount) \o LE32(flags) \o LE32(stringsStart)
        \o LE32(stylesStart)

MkRefs(refs) == Concat([i \in 1..Len(refs) |-> LE32(refs[i])])

\* the pool buffers with sc strings, stc styles, a gap of g bytes and a blob
\* of bl bytes
PoolLayouts(sc, stc, g, bl) ==
    LET base == ResStringPool_header_len + 4 * (sc + stc) + g
    IN  { MkPoolHeader(RES_STRING_POOL_TYPE, base + bl + d, sc, stc,
                       IF sc > 0 THEN 256 ELSE 0, sS, stS)
              \o MkRefs(refs) \o [i \in 1..g |-> 110] \o Payload(33, bl)
              \o TrailBytes(t) :
            refs \in [1..(sc + stc) -> {0, 1, 2}], d \in {0, -1},
            t \in {0, MaxTrail},
            sS \in IF sc = 0 THEN {0} ELSE {base, base + 1},
            stS \in IF stc = 0 THEN {0} ELSE {base, base + bl} }

PoolBuffers ==
    UNION { PoolLayouts(sc, stc, g, bl) :
              sc \in 0..MaxStrings, stc \in {0, 1}, g \in {0, 1}, bl \in 0..MaxBlob }
    \cup { PyTake(MkPoolHeader(RES_STRING_POOL_TYPE, 36, 1, 1, 0, 36, 36)
                     \o MkRefs(<<0, 0>>), n) : n \in {0, 7, 27, 30} }
    \cup { MkPoolHeader(RES_STRING_POOL_TYPE, 40, sc, 1, 0, 36, 38)
               \o MkRefs(<<0, 0>>) \o Payload(33, 4) : sc \in {0, 1} }

----------------------------------------------------------------------------
(* The state machine: a buffer is drawn, decoded (from_bytes), the value   *)
(* encoded (bytes()) and the encoding decoded again.                       *)

NoArg == [w |-> 0, little |-> TRUE]

InitWith(k, a, buffers) ==
    /\ kind = k
    /\ arg \in a
    /\ input \in buffers
    /\ pc = "init"
    /\ dec = None
    /\ enc = None
    /\ dec2 = None
    /\ heap = <<>>

Decode(k, r) ==
    /\ kind = k
    /\ pc = "init"
    /\ dec' = r
    /\ pc' = "decoded"
    /\ UNCHANGED <<kind, arg, input, enc, dec2, heap>>

Encode(k, r) ==
    /\ kind = k
    /\ pc = "decoded"
    /\ dec.ok
    /\ enc' = r
    /\ pc' = "encoded"
    /\ UNCHANGED <<kind, arg, input, dec, dec2, heap>>

Redecode(k, r) ==
    /\ kind = k
    /\ pc = "encoded"
    /\ enc.ok
    /\ dec2' = r
    /\ pc' = "redecoded"
    /\ UNCHANGED <<kind, arg, input, dec, enc, heap>>

InitPool == InitWith("pool", {NoArg}, PoolBuffers)

DecodePool == Decode("pool", ResStringPool_from_bytes(input))

EncodePool == Encode("pool", Ok(ResStringPool_bytes(dec.val), <<>>))

RedecodePool == Redecode("pool", ResStringPool_from_bytes(enc.val))

----------------------------------------------------------------------------
(* typeSpec and type buffers *)

MaxBody == 3

\* header.size - header.headerSize of the buffers drawn
RestLens == {-16, -1} \cup 0..(MaxBody + 1)

MkTypeSpecHeader(type, headerSize, size, id, entryCount) ==
    MkChunkHeader(type, headerSize, size) \o <<id, 0>> \o LE16(0) \o LE32(entryCount)

TypeSpecBuffers ==
    { MkTypeSpecHeader(RES_TABLE_TYPE_SPEC_TYPE, hs, Max(hs + rl, 0), id, ec)
          \o Payload(65, bl) \o TrailBytes(t) :
        hs \in {16, 12, 20}, rl \in RestLens, id \in {1, 2}, ec \in {0, 1},
        bl \in 0..MaxBody, t \in 0..MaxTrail }
    \cup { PyTake(MkTypeSpecHeader(RES_TABLE_TYPE_SPEC_TYPE, 16, 16, 1, 0), n) :
             n \in {0, 7, 15} }

MkTypeHeader(type, headerSize, size, id, entryCount, entriesStart, cs) ==
    MkChunkHeader(type, headerSize, size) \o <<id, 0>> \o LE16(0) \o LE32(entryCount)
        \o LE32(entriesStart) \o LE32(cs) \o Payload(97, Max(cs - 4, 0))

TypeBuffers ==
    { MkTypeHeader(RES_TABLE_TYPE_TYPE, hs, Max(hs + rl, 0), id, 1, hs + es, cs)
          \o Payload(81, bl) \o TrailBytes(t) :
        cs \in {0, 3, 4, 8}, hs \in {28, 68}, rl \in RestLens, id \in {1, 2},
        es \in {0, 1}, bl \in 0..MaxBody, t \in 0..MaxTrail }
    \cup { PyTake(MkTypeHeader(RES_TABLE_TYPE_TYPE, 28, 28, 1, 0, 28, 8), n) :
             n \in {0, 19, 22, 27} }

InitTypeSpec == InitWith("typeSpec", {NoArg}, TypeSpecBuffers)

InitType == InitWith("type", {NoArg}, TypeBuffers)

DecodeTypeSpec == Decode("typeSpec", ResTable_typeSpec_from_bytes(input))

EncodeTypeSpec == Encode("typeSpec", Ok(ResTable_typeSpec_bytes(dec.val), <<>>))

RedecodeTypeSpec == Redecode("typeSpec", ResTable_typeSpec_from_bytes(enc.val))

DecodeType == Decode("type", ResTable_type_from_bytes(input))

EncodeType == Encode("type", Ok(ResTable_type_bytes(dec.val), <<>>))

RedecodeType == Redecode("type", ResTable_type_from_bytes(enc.val))

----------------------------------------------------------------------------
(* Package buffers: the 288-byte header, the two string pools in either    *)
(* order, then typeSpec/type chunks.                                       *)

\* an empty pool, a pool of one string, a pool of one string and one style
EmptyPool == MkPoolHeader(RES_STRING_POOL_TYPE, 28, 0, 0, 0, 0, 0)

OneStringPool ==
    MkPoolHeader(RES_STRING_POOL_TYPE, 34, 1, 0, 256, 32, 0) \o MkRefs(<<0>>)
        \o Payload(49, 2)

StyledPool ==
    MkPoolHeader(RES_STRING_POOL_TYPE, 40, 1, 1, 0, 36, 38) \o MkRefs(<<0, 0>>)
        \o Payload(33, 4)

PoolPairs ==
    { <<EmptyPool, EmptyPool>>, <<OneStringPool, EmptyPool>>,
      <<EmptyPool, OneStringPool>>, <<StyledPool, OneStringPool>> }

\* chunks of the scan: typeSpecs of id 1 and 2, types of id 1 and 2, a chunk
\* of another type, a typeSpec of size 0
ChunkSample(c) ==
    CASE c = "S1" -> MkTypeSpecHeader(RES_TABLE_TYPE_SPEC_TYPE, 16, 20, 1, 1)
                         \o Payload(65, 4)
      [] c = "S2" -> MkTypeSpecHeader(RES_TABLE_TYPE_SPEC_TYPE, 16, 16, 2, 0)
      [] c = "T1" -> MkTypeHeader(RES_TABLE_TYPE_TYPE, 28, 30, 1, 1, 28, 8)
                         \o Payload(81, 2)
      [] c = "T2" -> MkTypeHeader(RES_TABLE_TYPE_TYPE, 28, 28, 2, 0, 28, 8)
      [] c = "X" -> MkChunkHeader(RES_XML_TYPE, 8, 8)
      [] c = "S0" -> MkTypeSpecHeader(RES_TABLE_TYPE_SPEC_TYPE, 16, 0, 1, 0)
      [] c = "T0" -> MkTypeHeader(RES_TABLE_TYPE_TYPE, 28, 0, 1, 0, 28, 8)
      [] c = "Tc" -> MkTypeHeader(RES_TABLE_TYPE_TYPE, 28, 28, 1, 0, 28, 3)

MaxChunks == 2

\* t e s t, NUL-terminated, as UTF-16
TestName == <<116, 0, 101, 0, 115, 0, 116, 0, 0, 0>>

MkPackageHeader(type, size, id, name, typeStrings, keyStrings, pad) ==
    MkChunkHeader(type, ResTable_package_header_len, size) \o LE32(id)
        \o name \o Zeros(256 - Len(name))
        \o LE32(typeStrings) \o LE32(10) \o LE32(keyStrings) \o LE32(793)
        \o pad

MkPackage(pools, keyFirst, chunks, variant, t) ==
    LET first == IF keyFirst THEN pools[2] ELSE pools[1]
        second == IF keyFirst THEN pools[1] ELSE pools[2]
        body == first \o second
                    \o Concat([i \in 1..Len(chunks) |-> ChunkSample(chunks[i])])
        total == ResTable_package_header_len + Len(body)
        size == CASE variant = "short" -> total - 1
                  [] variant = "long" -> total + 1
                  [] OTHER -> total
        typeStrings == ResTable_package_header_len
                           + IF keyFirst THEN Len(first) ELSE 0
        keyStrings == ResTable_package_header_len
                          + IF keyFirst THEN 0 ELSE Len(first)
    IN  MkPackageHeader(RES_TABLE_PACKAGE_TYPE, size, 127,
                        IF variant = "name" THEN [i \in 1..256 |-> 113] ELSE TestName,
                        typeStrings, keyStrings,
                        IF variant = "pad" THEN <<1, 0, 0, 0>> ELSE Zeros(4))
            \o body \o TrailBytes(t)

\* v: the well-formed package, the four bytes that end the header not
\* zero, a name without terminator, a size one short, a size one long
PackageBuffers ==
    { MkPackage(pp, kf, cs, v, MaxTrail) :
        pp \in PoolPairs, kf \in BOOLEAN,
        cs \in SeqsUpTo({"S1", "S2", "T1", "T2", "X", "S0"}, MaxChunks),
        v \in {"plain", "pad", "name", "short", "long"} }
    \cup { PyTake(MkPackage(<<EmptyPool, EmptyPool>>, FALSE, <<"S1">>, "plain", 0), n) :
             n \in {0, 11, 200, 287, 300} }

InitPackage == InitWith("package", {NoArg}, PackageBuffers)

DecodePackage == Decode("package", ResTable_package_from_bytes(input))

EncodePackage == Encode("package", ResTable_package_bytes(dec.val))

RedecodePackage == Redecode("package", ResTable_package_from_bytes(enc.val))

----------------------------------------------------------------------------
(* Table buffers: the 12-byte header, the values pool, the packages.       *)

MaxPackages == 2

PackageSamples ==
    { MkPackage(<<EmptyPool, EmptyPool>>, FALSE, <<"S1", "T1", "T1">>, "plain", 0),
      MkPackage(<<EmptyPool, OneStringPool>>, TRUE, <<"S1">>, "plain", 0),
      MkPackage(<<EmptyPool, EmptyPool>>, FALSE, <<>>, "plain", 0) }

MkTableHeader(type, headerSize, size, packageCount) ==
    MkChunkHeader(type, headerSize, size) \o LE32(packageCount)

MkTable(values, packages, delta, t) ==
    LET body == values \o Concat(packages)
    IN  MkTableHeader(RES_TABLE_TYPE, 12, 12 + Len(body),
                      Max(Len(packages) + delta, 0))
            \o body \o TrailBytes(t)

TableBuffers ==
    { MkTable(v, ps, d, t) :
        v \in {EmptyPool, OneStringPool, StyledPool},
        ps \in SeqsUpTo(PackageSamples, MaxPackages), d \in {0, -1, 1},
        t \in 0..MaxTrail }
    \cup { PyTake(MkTable(EmptyPool, <<>>, 0, 0), n) : n \in {0, 8, 11, 20} }

InitTable == InitWith("table", {NoArg}, TableBuffers)

DecodeTable == Decode("table", ResTable_from_bytes(input))

EncodeTable == Encode("table", ResTable_bytes(dec.val))

RedecodeTable == Redecode("table", ResTable_from_bytes(enc.val))

----------------------------------------------------------------------------
(* Every structure of the codec *)

Init == InitPool \/ InitTypeSpec \/ InitType \/ InitPackage \/ InitTable

Next ==
    \/ DecodePool \/ EncodePool \/ RedecodePool
    \/ DecodeTypeSpec \/ EncodeTypeSpec \/ RedecodeTypeSpec
    \/ DecodeType \/ EncodeType \/ RedecodeType
    \/ DecodePackage \/ EncodePackage \/ RedecodePackage
    \/ DecodeTable \/ EncodeTable \/ RedecodeTable

Spec == Init /\ [][Next]_vars

----------------------------------------------------------------------------
(* Integers: from_bytes of each width and byte order on buffers of up to   *)
(* w + MaxExtra bytes, then bytes() of the value read.                     *)

MaxExtra == 1

\* the first w bytes of b, read in the given order, stay below 2^31
FitsInt(w, little, b) ==
    LET h == PyTake(b, w)
        n == Len(h)
    IN  \A i \in 1..n :
            LET weight == IF little THEN i - 1 ELSE n - i
            IN  (weight > 3 => h[i] = 0) /\ (weight = 3 => h[i] < 128)

IntBuffers(w, little) ==
    { b \in SeqsUpTo({0, 1, 200}, w + MaxExtra) : FitsInt(w, little, b) }

InitInt ==
    \E w \in {1, 2, 4, 8}, l \in BOOLEAN :
        InitWith("int", {[w |-> w, little |-> l]}, IntBuffers(w, l))

DecodeInt == Decode("int", uint_from_bytes(arg.w, input, arg.little))

EncodeInt == Encode("int", Ok(uint_bytes(arg.w, dec.val), <<>>))

SpecInt == InitInt /\ [][DecodeInt \/ EncodeInt]_vars

----------------------------------------------------------------------------
(* Chunk headers: from_bytes with either value of the little flag, then    *)
(* bytes() of the header read.                                             *)

ChunkBuffers ==
    { MkChunkHeader(t, hs, sz) \o TrailBytes(n) :
        t \in ResourceType \cup {5}, hs \in {8, 12, 65408},
        sz \in {8, 107436, 2147483647}, n \in 0..MaxTrail }
    \cup { PyTake(MkChunkHeader(RES_TABLE_TYPE, 12, 107436), n) : n \in {0, 1, 3, 7} }

InitChunk ==
    InitWith("chunk", { [w |-> ResChunk_header_len, little |-> l] : l \in BOOLEAN },
             ChunkBuffers)

DecodeChunk == Decode("chunk", ResChunk_header_from_bytes(input, arg.little))

EncodeChunk == Encode("chunk", Ok(ResChunk_header_bytes(dec.val), <<>>))

SpecChunk == InitChunk /\ [][DecodeChunk \/ EncodeChunk]_vars

----------------------------------------------------------------------------
(* Package names: ResTable_package_header(name=...) on names of every      *)
(* length around the limit, terminated or not, bytes or str.               *)

MaxNameExcess == 2

\* n bytes: fill, then the two bytes of tail
MkName(n, fill, tail) ==
    [i \in 1..n |-> IF i > n - 2 THEN tail[i - (n - 2)] ELSE fill]

Names ==
    { MkName(n, f, tl) :
        n \in {2, 3, 10} \cup (254..(2 * MAX_NAME_LEN + MaxNameExcess)),
        f \in {113, 0}, tl \in { <<0, 0>>, <<0, 1>>, <<1, 0>>, <<113, 113>> } }
    \cup { <<>>, <<0>> }

InitName == InitWith("name", { [isBytes |-> x] : x \in BOOLEAN }, Names)

ConstructPackageHeader ==
    Decode("name",
           ResTable_package_header_init(
               ResChunk_header_of(RES_TABLE_PACKAGE_TYPE, ResTable_package_header_len,
                                  ResTable_package_header_len),
               uint(0, TRUE), [isBytes |-> arg.isBytes, data |-> input],
               uint(0, TRUE), uint(0, TRUE), uint(0, TRUE), uint(0, TRUE)))

EncodePackageHeader ==
    Encode("name", Ok(ResTable_package_header_bytes(dec.val), <<>>))

SpecName == InitName /\ [][ConstructPackageHeader \/ EncodePackageHeader]_vars

----------------------------------------------------------------------------
(* The type check of the chunk wrappers: each wrapper is constructed and   *)
(* decoded with every ResourceType in its chunk header, alone and inside a *)
(* package and a table.                                                    *)

Wrappers ==
    { "ResTable_header", "ResStringPool_header", "ResTable_package_header",
      "ResTable_typeSpec_header", "ResTable_type_header" }

\* the places of a table's bytes that are decoded as a wrapper
TablePlaces ==
    { "ResTable_header", "values", "ResTable_package_header", "typeStrings",
      "keyStrings" }

PackagePlaces == { "ResTable_package_header", "typeStrings", "keyStrings" }

\* the type the wrapper decoded at a place requires
ExpectedType(where) ==
    CASE where = "ResTable_header" -> RES_TABLE_TYPE
      [] where \in { "ResStringPool_header", "values", "typeStrings", "keyStrings" }
             -> RES_STRING_POOL_TYPE
      [] where = "ResTable_package_header" -> RES_TABLE_PACKAGE_TYPE
      [] where = "ResTable_typeSpec_header" -> RES_TABLE_TYPE_SPEC_TYPE
      [] where = "ResTable_type_header" -> RES_TABLE_TYPE_TYPE

\* the bytes that hold the fields from_bytes of a wrapper reads
FieldsLen(where) ==
    CASE where = "ResTable_header" -> 12
      [] where = "ResStringPool_header" -> ResStringPool_header_len
      [] where = "ResTable_package_header" -> ResTable_package_header_len - 4
      [] where = "ResTable_typeSpec_header" -> ResTable_typeSpec_header_len
      [] where = "ResTable_type_header" -> 24

\* wrapper(header) with a chunk header of type t, the other arguments left
\* to their defaults
Wrapper_init(wrapper, t) ==
    CASE wrapper = "ResTable_header" ->
             ResTable_header_init(
                 ResChunk_header_of(t, ResTable_header_len, ResTable_header_len),
                 uint(0, TRUE))
      [] wrapper = "ResStringPool_header" ->
             ResStringPool_header_init(
                 ResChunk_header_of(t, ResStringPool_header_len,
                                    ResStringPool_header_len),
                 uint(0, TRUE), uint(0, TRUE), 0, uint(0, TRUE), uint(0, TRUE))
      [] wrapper = "ResTable_package_header" ->
             ResTable_package_header_init(
                 ResChunk_header_of(t, ResTable_package_header_len,
                                    ResTable_package_header_len),
                 uint(0, TRUE), BytesName(<<0, 0>>), uint(0, TRUE), uint(0, TRUE),
                 uint(0, TRUE), uint(0, TRUE))
      [] wrapper = "ResTable_typeSpec_header" ->
             ResTable_typeSpec_header_init(
                 ResChunk_header_of(t, ResTable_typeSpec_header_len,
                                    ResTable_typeSpec_header_len),
                 uint(1, TRUE), uint(0, TRUE), uint(0, TRUE), uint(0, TRUE))
      [] wrapper = "ResTable_type_header" ->
             ResTable_type_header_init(
                 ResChunk_header_of(t, ResTable_type_header_len,
                                    ResTable_type_header_len),
                 uint(1, TRUE), uint(0, TRUE), uint(0, TRUE), uint(0, TRUE),
                 uint(0, TRUE),
                 ResTable_config_init(uint(ResTable_config_default_size, TRUE)).val)

\* wrapper.from_bytes(b)
Wrapper_from_bytes(wrapper, b) ==
    CASE wrapper = "ResTable_header" -> ResTable_header_from_bytes(b)
      [] wrapper = "ResStringPool_header" -> ResStringPool_header_from_bytes(b)
      [] wrapper = "ResTable_package_header" -> ResTable_package_header_from_bytes(b)
      [] wrapper = "ResTable_typeSpec_header" -> ResTable_typeSpec_header_from_bytes(b)
      [] wrapper = "ResTable_type_header" -> ResTable_type_header_from_bytes(b)

\* the bytes of a wrapper whose chunk header has type t (cs: the declared
\* size of the configuration of a ResTable_type_header)
WrapperBytes(wrapper, t, cs) ==
    CASE wrapper = "ResTable_header" -> MkTableHeader(t, 12, 12, 0)
      [] wrapper = "ResStringPool_header" -> MkPoolHeader(t, 28, 0, 0, 0, 0, 0)
      [] wrapper = "ResTable_package_header" ->
             MkPackageHeader(t, ResTable_package_header_len, 127, TestName, 0, 0,
                             Zeros(4))
      [] wrapper = "ResTable_typeSpec_header" -> MkTypeSpecHeader(t, 16, 16, 1, 0)
      [] wrapper = "ResTable_type_header" -> MkTypeHeader(t, 28, 28, 1, 0, 28, cs)

\* the type written at place here: t at the place under test
TypeAt(where, here, t) == IF where = here THEN t ELSE ExpectedType(here)

\* a package with two empty pools and one typeSpec
MkGuardPackage(where, t) ==
    LET body == MkPoolHeader(TypeAt(where, "typeStrings", t), 28, 0, 0, 0, 0, 0)
                    \o MkPoolHeader(TypeAt(where, "keyStrings", t), 28, 0, 0, 0, 0, 0)
                    \o ChunkSample("S1")
    IN  MkPackageHeader(TypeAt(where, "ResTable_package_header", t),
                        ResTable_package_header_len + Len(body), 127, TestName,
                        ResTable_package_header_len,
                        ResTable_package_header_len + 28, Zeros(4))
            \o body

\* a table of one such package
MkGuardTable(where, t) ==
    LET body == MkPoolHeader(TypeAt(where, "values", t), 28, 0, 0, 0, 0, 0)
                    \o MkGuardPackage(where, t)
    IN  MkTableHeader(TypeAt(where, "ResTable_header", t), 12, 12 + Len(body), 1)
            \o body

\* the bytes are kept whole, cut after the chunk header, or cut one byte
\* short of the fields; cs is the declared size of the configuration
InitGuard ==
    \E t \in ResourceType :
        \/ \E wr \in Wrappers :
               InitWith("guard", {[path |-> "init", where |-> wr, t |-> t]}, {<<>>})
        \/ \E wr \in Wrappers :
               \E cs \in {8} \cup (IF wr = "ResTable_type_header" THEN {0} ELSE {}) :
                   InitWith("guard", {[path |-> "from_bytes", where |-> wr, t |-> t]},
                            { PyTake(WrapperBytes(wr, t, cs), n) :
                                n \in {Len(WrapperBytes(wr, t, cs)),
                                       ResChunk_header_len, FieldsLen(wr) - 1} })
        \/ \E wh \in PackagePlaces :
               InitWith("guard", {[path |-> "package", where |-> wh, t |-> t]},
                        {MkGuardPackage(wh, t)})
        \/ \E wh \in TablePlaces :
               InitWith("guard", {[path |-> "table", where |-> wh, t |-> t]},
                        {MkGuardTable(wh, t)})

ConstructWrapper ==
    arg.path = "init" /\ Decode("guard", Wrapper_init(arg.where, arg.t))

DecodeWrapper ==
    arg.path = "from_bytes" /\ Decode("guard", Wrapper_from_bytes(arg.where, input))

DecodeNestedPackage ==
    arg.path = "package" /\ Decode("guard", ResTable_package_from_bytes(input))

DecodeNestedTable ==
    arg.path = "table" /\ Decode("guard", ResTable_from_bytes(input))

SpecGuard ==
    InitGuard /\ [][ConstructWrapper \/ DecodeWrapper \/ DecodeNestedPackage
                        \/ DecodeNestedTable]_vars

----------------------------------------------------------------------------
(* Two buffers decoded by the same from_bytes, and the two values compared *)
(* with == and by their bytes().                                           *)

\* pools of size 28, 32 and 34 with one ref word and two blob bytes after
\* the header; types that differ in id, in a byte of the configuration and
\* in the body
PairBuffers(cls) ==
    IF cls = "ResStringPool"
    THEN { MkPoolHeader(RES_STRING_POOL_TYPE, s, sc, 0, 0, 32, 0) \o LE32(r)
               \o Payload(x, 2) :
             s \in {28, 32, 34}, sc \in {0, 1}, r \in {0, 1}, x \in {49, 51} }
    ELSE { [MkTypeHeader(RES_TABLE_TYPE_TYPE, 28, 30, id, 1, 28, 8) \o Payload(x, 2)
               EXCEPT ![25] = c] :
             id \in {1, 2}, c \in {97, 98}, x \in {81, 83} }

InitPair ==
    \E cls \in {"ResStringPool", "ResTable_type"} :
        InitWith("pair", { [cls |-> cls, other |-> b] : b \in PairBuffers(cls) },
                 PairBuffers(cls))

\* v1, _ = cls.from_bytes(input); v2, _ = cls.from_bytes(other)
DecodeBoth ==
    /\ kind = "pair"
    /\ pc = "init"
    /\ dec' = IF arg.cls = "ResStringPool" THEN ResStringPool_from_bytes(input)
              ELSE ResTable_type_from_bytes(input)
    /\ dec2' = IF arg.cls = "ResStringPool" THEN ResStringPool_from_bytes(arg.other)
               ELSE ResTable_type_from_bytes(arg.other)
    /\ pc' = "decoded"
    /\ UNCHANGED <<kind, arg, input, enc, heap>>

\* v1 == v2 and bytes(v1) == bytes(v2)
Compare ==
    /\ kind = "pair"
    /\ pc = "decoded"
    /\ dec.ok /\ dec2.ok
    /\ enc' = Ok([eq |-> IF arg.cls = "ResStringPool"
                         THEN ResStringPool_eq(dec.val, dec2.val)
                         ELSE TypeChunk_eq(dec.val, dec2.val),
                  same_bytes |-> IF arg.cls = "ResStringPool"
                                 THEN ResStringPool_bytes(dec.val)
                                          = ResStringPool_bytes(dec2.val)
                                 ELSE ResTable_type_bytes(dec.val)
                                          = ResTable_type_bytes(dec2.val)],
                 <<>>)
    /\ pc' = "compared"
    /\ UNCHANGED <<kind, arg, input, dec, dec2, heap>>

SpecPair == InitPair /\ [][DecodeBoth \/ Compare]_vars

----------------------------------------------------------------------------
(* Object identity: heap holds the ResChunk_header objects, and a wrapper  *)
(* built without a header argument holds the index of its header.          *)

\* one ResChunk_header object made once and handed to every call
DefaultHeader_shared(h, cls) ==
    IF h = <<>>
    THEN [heap |-> <<Wrapper_init(cls, ExpectedType(cls)).val.header>>, at |-> 1]
    ELSE [heap |-> h, at |-> 1]

\* header=None: __init__ builds a new ResChunk_header on every call
DefaultHeader(h, cls) ==
    [heap |-> Append(h, Wrapper_init(cls, ExpectedType(cls)).val.header),
     at |-> Len(h) + 1]

InitAlias ==
    InitWith("alias",
             { [cls |-> c, who |-> w, size |-> n] :
                 c \in {"ResTable_header", "ResTable_package_header"},
                 w \in {1, 2}, n \in {0, 27, 28, 29, 123, 287, 288, 289} },
             {<<>>})

\* invector1 = cls(); invector2 = cls()
ConstructTwo ==
    /\ kind = "alias"
    /\ pc = "init"
    /\ LET a == DefaultHeader(heap, arg.cls)
           b == DefaultHeader(a.heap, arg.cls)
           o == Wrapper_init(arg.cls, ExpectedType(arg.cls)).val
       IN  /\ dec' = Ok([o EXCEPT !.header = a.at], <<>>)
           /\ dec2' = Ok([o EXCEPT !.header = b.at], <<>>)
           /\ heap' = b.heap
    /\ pc' = "constructed"
    /\ UNCHANGED <<kind, arg, input, enc>>

\* invector.header.size = uint32(size), on the first or the second object
AssignSize ==
    /\ kind = "alias"
    /\ pc = "constructed"
    /\ heap' = [heap EXCEPT ![(IF arg.who = 1 THEN dec ELSE dec2).val.header].size
                                = uint(arg.size, FALSE)]
    /\ pc' = "assigned"
    /\ UNCHANGED <<kind, arg, input, dec, enc, dec2>>

\* invector1 == invector2
CompareObjects ==
    /\ kind = "alias"
    /\ pc = "assigned"
    /\ LET a == [dec.val EXCEPT !.header = heap[dec.val.header]]
           b == [dec2.val EXCEPT !.header = heap[dec2.val.header]]
       IN  enc' = Ok([eq |-> IF arg.cls = "ResTable_header"
                             THEN ResTable_header_eq(a, b)
                             ELSE ResTable_package_header_eq(a, b)], <<>>)
    /\ pc' = "compared"
    /\ UNCHANGED <<kind, arg, input, dec, dec2, heap>>

SpecAlias == InitAlias /\ [][ConstructTwo \/ AssignSize \/ CompareObjects]_vars

----------------------------------------------------------------------------
(* The chunk scan of ResTable_package.from_bytes, one loop iteration per   *)
(* step: input is the scan buffer b, dec holds types and spec.             *)

MaxScan == 3

\* types = []; spec = None; b = rest
InitScan ==
    \E cs \in SeqsUpTo({"S1", "S2", "T1", "T2", "X", "S0", "T0", "Tc"}, MaxScan),
       t \in 0..MaxTrail :
        /\ kind = "scan"
        /\ arg = [buf |-> Concat([i \in 1..Len(cs) |-> ChunkSample(cs[i])])
                              \o TrailBytes(t)]
        /\ input = arg.buf
        /\ pc = "loop"
        /\ dec = Ok([types |-> <<>>, spec |-> NoGroup], <<>>)
        /\ enc = None
        /\ dec2 = None
        /\ heap = <<>>

\* an iteration that steps over a chunk of any other type
ScanIteration_skip_unknown(b, types, spec) ==
    Then(ResChunk_header_from_bytes(b, TRUE), LAMBDA hdr :
        IF hdr.val.type = RES_TABLE_TYPE_SPEC_TYPE THEN
            Then(ResTable_typeSpec_from_bytes(b), LAMBDA typeSpec :
                Ok([types |-> IF spec.none THEN types ELSE types \o <<spec>>,
                    spec |-> Group(<<typeSpec.val>>)], typeSpec.rest))
        ELSE IF hdr.val.type = RES_TABLE_TYPE_TYPE THEN
            Then(ResTable_type_from_bytes(b), LAMBDA typ :
                IF spec.none THEN Err("AttributeError")
                ELSE Ok([types |-> types, spec |-> Group(spec.items \o <<typ.val>>)],
                        typ.rest))
        ELSE Ok([types |-> types, spec |-> spec], hdr.rest))

\* the body of the while loop (lines 237-250): the new types and spec, and
\* the new scan buffer as rest
ScanIteration(b, types, spec) ==
    Then(ResChunk_header_from_bytes(b, TRUE), LAMBDA hdr :
        IF hdr.val.type = RES_TABLE_TYPE_SPEC_TYPE THEN
            Then(ResTable_typeSpec_from_bytes(b), LAMBDA typeSpec :
                Ok([types |-> IF spec.none THEN types ELSE types \o <<spec>>,
                    spec |-> Group(<<typeSpec.val>>)], typeSpec.rest))
        ELSE IF hdr.val.type = RES_TABLE_TYPE_TYPE THEN
            Then(ResTable_type_from_bytes(b), LAMBDA typ :
                IF spec.none THEN Err("AttributeError")
                ELSE Ok([types |-> types, spec |-> Group(spec.items \o <<typ.val>>)],
                        typ.rest))
        ELSE Err(ChunkHeaderWrongTypeException))

\* one iteration of while len(b) > 0
ScanStep ==
    /\ kind = "scan"
    /\ pc = "loop"
    /\ Len(input) > 0
    /\ LET r == ScanIteration(input, dec.val.types, dec.val.spec)
       IN  IF r.ok
           THEN dec' = Ok(r.val, <<>>) /\ input' = r.rest /\ pc' = "loop"
           ELSE dec' = r /\ input' = input /\ pc' = "raised"
    /\ UNCHANGED <<kind, arg, enc, dec2, heap>>

\* the loop ends: types.append(spec)
ScanExit ==
    /\ kind = "scan"
    /\ pc = "loop"
    /\ Len(input) = 0
    /\ enc' = Ok(dec.val.types \o <<dec.val.spec>>, <<>>)
    /\ pc' = "returned"
    /\ UNCHANGED <<kind, arg, input, dec, dec2, heap>>

SpecScan ==
    InitScan /\ [][ScanStep \/ ScanExit]_vars /\ WF_vars(ScanStep \/ ScanExit)

----------------------------------------------------------------------------
(* ResStringPool constructed from the caller's lists.  heap holds the list *)
(* elements, plain integers (isUint = FALSE) and uint32 objects; input     *)
(* holds the caller's two lists as sequences of heap indices.              *)

MaxRefs == 2

\* strrefs and stylerefs of plain integers, of uint32(n) or of
\* uint32(n, little=True)
InitCtor ==
    \E sk \in {"int", "big", "little"}, stk \in {"int", "big", "little"},
       sv \in SeqsUpTo({0, 2}, MaxRefs), stv \in SeqsUpTo({1, 3}, 1) :
        /\ kind = "ctor"
        /\ heap = [i \in 1..Len(sv) |->
                      [isUint |-> sk # "int", integer |-> sv[i], little |-> sk = "little"]]
                  \o [i \in 1..Len(stv) |->
                      [isUint |-> stk # "int", integer |-> stv[i],
                       little |-> stk = "little"]]
        /\ input = [strrefs |-> [i \in 1..Len(sv) |-> i],
                    stylerefs |-> [i \in 1..Len(stv) |-> Len(sv) + i]]
        /\ arg = [heap |-> heap, lists |-> input]
        /\ pc = "init"
        /\ dec = None
        /\ enc = None
        /\ dec2 = None

\* ResStringPool(None, strrefs, stylerefs, [], []): lines 208-221, then
\* self.strrefs = strrefs and self.stylerefs = stylerefs
ConstructPool ==
    /\ kind = "ctor"
    /\ pc = "init"
    /\ LET \* _convert_list_elements(l, uint32) when l[0] is no uint32
           conv(l, h) ==
               IF Len(l) > 0 /\ ~h[l[1]].isUint
               THEN [list |-> [i \in 1..Len(l) |-> Len(h) + i],
                     heap |-> h \o [i \in 1..Len(l) |->
                                       [isUint |-> TRUE, integer |-> h[l[i]].integer,
                                        little |-> FALSE]]]
               ELSE [list |-> l, heap |-> h]
           \* for e in l: e.little = True
           setLittle(l, h) ==
               [a \in 1..Len(h) |->
                   IF \E i \in 1..Len(l) : l[i] = a
                   THEN [h[a] EXCEPT !.little = TRUE] ELSE h[a]]
           s == conv(input.strrefs, heap)
           st == conv(input.stylerefs, setLittle(s.list, s.heap))
           h == setLittle(s.list, st.heap)
       IN  /\ heap' = h
           /\ input' = [strrefs |-> s.list, stylerefs |-> st.list]
           /\ dec' = Ok([header |-> Wrapper_init("ResStringPool_header",
                                                 RES_STRING_POOL_TYPE).val,
                         strrefs |-> [i \in 1..Len(s.list) |->
                                         uint(h[s.list[i]].integer, h[s.list[i]].little)],
                         stylerefs |-> [i \in 1..Len(st.list) |->
                                           uint(h[st.list[i]].integer,
                                                h[st.list[i]].little)],
                         strings |-> <<>>, styles |-> <<>>], <<>>)
    /\ pc' = "constructed"
    /\ UNCHANGED <<kind, arg, enc, dec2>>

\* bytes(pool)
EncodeConstructed ==
    /\ kind = "ctor"
    /\ pc = "constructed"
    /\ enc' = Ok(ResStringPool_bytes(dec.val), <<>>)
    /\ pc' = "encoded"
    /\ UNCHANGED <<kind, arg, input, dec, dec2, heap>>

SpecCtor == InitCtor /\ [][ConstructPool \/ EncodeConstructed]_vars

----------------------------------------------------------------------------
(* Properties *)

\* C1: whenever ResTable.from_bytes(b) succeeds and returns (T, r), bytes(T)
\* succeeds and bytes(T) + r = b.
C1_table_round_trip ==
    (kind = "table" /\ pc = "encoded") => (enc.ok /\ enc.val \o dec.rest = input)

\* C2: whenever ResTable_package.from_bytes(b) succeeds and returns (P, r),
\* with s = P.header.header.size: bytes(P) = b[:s] and r = b[s:], wherever
\* header.typeStrings and header.keyStrings place the two pools.
C2_package_round_trip ==
    (kind = "package" /\ pc = "encoded") =>
        LET s == dec.val.header.header.size.integer
        IN  enc.ok /\ enc.val = PyTake(input, s) /\ dec.rest = PyDrop(input, s)

\* C3: whenever ResStringPool.from_bytes(b) succeeds and returns (P, r), with
\* s = P.header.header.size: bytes(P) = b[:s] and r = b[s:], whatever
\* stringCount, styleCount, stringsStart and stylesStart are.
C3_pool_round_trip ==
    (kind = "pool" /\ pc = "encoded") =>
        LET s == dec.val.header.header.size.integer
        IN  enc.ok /\ enc.val = PyTake(input, s) /\ dec.rest = PyDrop(input, s)

\* C4: whenever from_bytes of ResStringPool, ResTable_package or ResTable
\* succeeds with value v, bytes(v) succeeds, from_bytes(bytes(v)) succeeds and
\* its value equals v.
C4_decode_encode_decode ==
    (kind \in {"pool", "package", "table"}) =>
        /\ pc = "encoded" => enc.ok
        /\ pc = "redecoded" =>
               /\ dec2.ok
               /\ CASE kind = "pool" -> ResStringPool_eq(dec2.val, dec.val)
                    [] kind = "package" -> ResTable_package_eq(dec2.val, dec.val)
                    [] kind = "table" -> ResTable_eq(dec2.val, dec.val)

\* C5, as stated: a wrapper constructed with, or decoded from bytes with, a
\* chunk type other than the one it expects always fails with
\* ChunkHeaderWrongTypeException.
C5_type_guard_any_bytes ==
    (kind = "guard" /\ pc = "decoded" /\ arg.t # ExpectedType(arg.where)) =>
        (~dec.ok /\ dec.err = ChunkHeaderWrongTypeException)

\* C5, amended: with a chunk type other than the expected one, construction and
\* from_bytes never return an object, alone or nested in a package or a
\* table; the failure is ChunkHeaderWrongTypeException whenever the bytes hold
\* every field from_bytes of the wrapper reads (for ResTable_type_header: with a
\* configuration of declared size 4 or more).
C5_type_guard ==
    (kind = "guard" /\ pc = "decoded" /\ arg.t # ExpectedType(arg.where)) =>
        /\ ~dec.ok
        /\ ( \/ arg.path # "from_bytes"
             \/ /\ Len(input) >= FieldsLen(arg.where)
                /\ arg.where = "ResTable_type_header"
                       => UnpackLE(SubSeq(input, 21, 24)) >= 4 )
               => dec.err = ChunkHeaderWrongTypeException

\* a values pool of type RES_XML_TYPE inside a table has made
\* ResTable.from_bytes fail with ChunkHeaderWrongTypeException
C5_witness ==
    /\ kind = "guard" /\ pc = "decoded"
    /\ arg.path = "table" /\ arg.where = "values" /\ arg.t = RES_XML_TYPE
    /\ ~dec.ok /\ dec.err = ChunkHeaderWrongTypeException

\* C6: for every value S returned by from_bytes of ResStringPool,
\* ResTable_typeSpec, ResTable_type, ResTable_package or ResTable, bytes(S)
\* succeeds and len(bytes(S)) is the size field of S's chunk header.
C6_length_consistency ==
    (kind \in {"pool", "typeSpec", "type", "package", "table"} /\ pc = "encoded") =>
        (enc.ok /\ Len(enc.val) = dec.val.header.header.size.integer)

\* C7: for every decoded ResStringPool with stringCount = N > 0, strings has N
\* elements and their concatenation is the pool's bytes from stringsStart on,
\* whatever the N offsets are.
C7_offset_law ==
    (kind = "pool" /\ pc = "decoded" /\ dec.ok
         /\ dec.val.header.stringCount.integer > 0) =>
        LET h == dec.val.header
            blob == PyDrop(PyTake(input, h.header.size.integer),
                           h.stringsStart.integer)
        IN  /\ Len(dec.val.strings) = h.stringCount.integer
            /\ Concat(dec.val.strings) = blob

\* C8: ResTable_package_header with a bytes name of n <= 256 bytes ending in
\* two zero bytes stores 256 bytes, the name then 256 - n zero bytes; any
\* other name (not ending in two zero bytes, longer than 256, not bytes)
\* raises and no header is made.
C8_name_padding ==
    (kind = "name" /\ pc # "init") =>
        LET n == Len(input)
        IN  IF /\ arg.isBytes
               /\ n <= 256
               /\ n >= 2
               /\ input[n - 1] = 0
               /\ input[n] = 0
            THEN /\ dec.ok
                 /\ Len(dec.val.name) = 256
                 /\ \A i \in 1..256 :
                        dec.val.name[i] = IF i <= n THEN input[i] ELSE 0
            ELSE ~dec.ok

\* a terminated name of 10 bytes has been stored
C8_witness ==
    /\ kind = "name" /\ pc = "decoded" /\ dec.ok
    /\ arg.isBytes /\ Len(input) = 10 /\ input[1] = 113
    /\ Len(dec.val.name) = 256

\* C9: for w in {1, 2, 4, 8} and both byte orders, from_bytes on fewer than w
\* bytes fails; on w bytes or more it returns the unsigned value of the first
\* w bytes in the requested order, and the remainder buffer[w:].
C9_uint_from_bytes ==
    (kind = "int" /\ pc # "init") =>
        LET w == arg.w
            n == Len(input)
            v == dec.val.integer
        IN  IF n < w THEN ~dec.ok
            ELSE /\ dec.ok
                 /\ dec.rest = SubSeq(input, w + 1, n)
                 /\ v >= 0
                 /\ \A i \in 1..w :
                        input[IF arg.little THEN i ELSE w + 1 - i]
                            = IF i > 4 THEN 0 ELSE (v \div (256 ^ (i - 1))) % 256

\* a big-endian uint64 has been read from nine bytes
C9_witness ==
    /\ kind = "int" /\ pc = "decoded" /\ dec.ok
    /\ arg.w = 8 /\ ~arg.little
    /\ input = <<0, 0, 0, 0, 0, 0, 200, 1, 1>>
    /\ dec.val.integer = 51201 /\ dec.rest = <<1>>

\* C10: ResChunk_header.from_bytes(b, little) reads type, headerSize and size
\* little-endian whatever little is, and returns b[8:]; bytes() of the header
\* read is b[:8].
C10_chunk_header_little_endian ==
    (kind = "chunk" /\ pc # "init") =>
        /\ (Len(input) >= 8 /\ input[1] + 256 * input[2] \in ResourceType) => dec.ok
        /\ dec.ok =>
               /\ dec.val.type = input[1] + 256 * input[2]
               /\ dec.val.headerSize.integer = input[3] + 256 * input[4]
               /\ dec.val.size.integer =
                      input[5] + 256 * input[6] + 65536 * input[7]
                          + 16777216 * input[8]
               /\ dec.rest = SubSeq(input, 9, Len(input))
        /\ pc = "encoded" => (enc.ok /\ enc.val = SubSeq(input, 1, 8))

\* a package chunk header has been read with little = False and written back
C10_witness ==
    /\ kind = "chunk" /\ pc = "encoded" /\ ~arg.little
    /\ dec.val.type = RES_TABLE_PACKAGE_TYPE
    /\ dec.val.headerSize.integer = 65408
    /\ dec.val.size.integer = 107436
    /\ dec.rest # <<>>
    /\ enc.val = SubSeq(input, 1, 8)

\* C11: after every successful ResTable.from_bytes there are packageCount
\* packages; the first is the package decoded from the byte after the values
\* pool's declared size, package i + 1 the package decoded from the byte
\* after package i's declared size, and the remainder starts after the last
\* one.
C11_sequential_packages ==
    (kind = "table" /\ pc = "decoded" /\ dec.ok) =>
        LET T == dec.val
            n == Len(T.packages)
            start[k \in 0..n] ==
                IF k = 0 THEN 12 + T.values.header.header.size.integer
                ELSE start[k - 1] + T.packages[k].header.header.size.integer
        IN  /\ n = T.header.packageCount.integer
            /\ \A i \in 1..n :
                   LET r == ResTable_package_from_bytes(PyDrop(input, start[i - 1]))
                   IN  r.ok /\ r.val = T.packages[i]
            /\ dec.rest = PyDrop(input, start[n])

\* a table of two packages that differ has been decoded
C11_witness ==
    /\ kind = "table" /\ pc = "decoded" /\ dec.ok
    /\ Len(dec.val.packages) = 2
    /\ dec.val.packages[1] # dec.val.packages[2]
    /\ dec.val.header.packageCount.integer = 2

\* C12: from_bytes of ResStringPool, ResTable_typeSpec, ResTable_type or
\* ResTable_package on a buffer that holds fewer bytes than the size its
\* chunk header declares fails and returns no value.
C12_truncation_fails ==
    (/\ kind \in {"pool", "typeSpec", "type", "package"}
     /\ pc = "decoded"
     /\ Len(input) >= ResChunk_header_len
     /\ Len(input) < UnpackLE(SubSeq(input, 5, 8))) => ~dec.ok

\* C13: bytes(v) succeeds for every value v returned by a successful
\* from_bytes of ResStringPool, ResTable_typeSpec, ResTable_type,
\* ResTable_package or ResTable, a package without typeSpec/type chunk
\* included.
C13_encode_total ==
    (kind \in {"pool", "typeSpec", "type", "package", "table"} /\ pc = "encoded")
        => enc.ok

\* C14: two values returned by successful decodes of the same structure are
\* equal (==) exactly when their bytes() are equal; two ResTable_type values
\* that differ only in the bytes of their configuration are not equal.
C14_equality_structural ==
    (kind = "pair" /\ pc = "compared") => (enc.val.eq <=> enc.val.same_bytes)

\* C15: two default-constructed ResTable_header or ResTable_package_header
\* objects hold different ResChunk_header objects; after header.size of one is
\* assigned, the header of the other is still the default one, and the two
\* objects compare unequal whenever the assigned size is not the default size.
C15_no_shared_header ==
    (kind = "alias" /\ pc \in {"assigned", "compared"}) =>
        LET other == IF arg.who = 1 THEN dec2 ELSE dec
            default == Wrapper_init(arg.cls, ExpectedType(arg.cls)).val.header
        IN  /\ dec.val.header # dec2.val.header
            /\ heap[other.val.header] = default
            /\ (pc = "compared" /\ arg.size # default.size.integer) => ~enc.val.eq

C15_witness ==
    kind = "alias" /\ pc = "compared" /\ arg.who = 1 /\ arg.size = 123 /\ ~enc.val.eq

\* C16: when two buffers agree on their first header.size bytes and both
\* decode as string pools, the two pools are identical and the remainder is
\* the buffer from index header.size on.
C16_pool_extent ==
    (kind = "pair" /\ arg.cls = "ResStringPool" /\ pc = "decoded" /\ dec.ok /\ dec2.ok) =>
        LET size == dec.val.header.header.size.integer
        IN  PyTake(input, size) = PyTake(arg.other, size) =>
                (dec.val = dec2.val /\ dec.rest = PyDrop(input, size))

\* C17: a pool decoded with stringCount > 0, styleCount > 0 and
\* stringsStart <= stylesStart has strings that together are the pool bytes
\* [stringsStart, stylesStart) and styles that together are the bytes
\* [stylesStart, header.size).
C17_blobs_disjoint ==
    (kind = "pool" /\ pc = "decoded" /\ dec.ok) =>
        LET h == dec.val.header
            content == PyTake(input, h.header.size.integer)
        IN  (/\ h.stringCount.integer > 0
             /\ h.styleCount.integer > 0
             /\ h.stringsStart.integer <= h.stylesStart.integer) =>
                /\ Concat(dec.val.strings)
                       = PyDrop(PyTake(content, h.stylesStart.integer),
                                h.stringsStart.integer)
                /\ Concat(dec.val.styles) = PyDrop(content, h.stylesStart.integer)

\* C18: a pool is decoded only if its string offsets and its style offsets
\* are non-decreasing and the last offset of each list is at most the length
\* of its blob, so that no derived entry length is negative.
C18_offsets_consistent ==
    (kind = "pool" /\ pc = "decoded" /\ dec.ok) =>
        LET h == dec.val.header
            content == PyTake(input, h.header.size.integer)
            ends(refs, count, start) ==
                refs \o <<uint(IF count > 0 THEN Len(PyDrop(content, start)) ELSE 0,
                               FALSE)>>
            lengths == offsets_to_length(ends(dec.val.strrefs, h.stringCount.integer,
                                              h.stringsStart.integer))
                       \o offsets_to_length(ends(dec.val.stylerefs,
                                                 h.styleCount.integer,
                                                 h.stylesStart.integer))
        IN  \A i \in 1..Len(lengths) : lengths[i] >= 0

\* C19: a decoded pool has stringCount string offsets and stringCount
\* strings, styleCount style offsets and styleCount styles; with stringCount
\* 0 it has no strings, whatever stringsStart is.
C19_list_lengths ==
    (kind = "pool" /\ pc = "decoded" /\ dec.ok) =>
        LET p == dec.val
        IN  /\ Len(p.strrefs) = p.header.stringCount.integer
            /\ Len(p.strings) = p.header.stringCount.integer
            /\ Len(p.stylerefs) = p.header.styleCount.integer
            /\ Len(p.styles) = p.header.styleCount.integer
            /\ p.header.stringCount.integer = 0 => p.strings = <<>>

C19_witness ==
    /\ kind = "pool" /\ pc = "decoded" /\ dec.ok
    /\ dec.val.header.stringCount.integer = 2 /\ Len(dec.val.strings) = 2
    /\ dec.val.header.styleCount.integer = 1 /\ Len(dec.val.styles) = 1

\* C20: when the package header and both string pools decode, the package is
\* the one whose typeSpec/type chunks are scanned from content offset
\* max(typeStrings + typeStrings pool size, keyStrings + keyStrings pool size),
\* and the decode fails exactly when that scan fails.
C20_scan_start ==
    (kind = "package" /\ pc = "decoded") =>
        LET header == ResTable_package_header_from_bytes(input)
            content == PyTake(input, header.val.header.size.integer)
            t == ResStringPool_from_bytes(PyDrop(content, header.val.typeStrings.integer))
            k == ResStringPool_from_bytes(PyDrop(content, header.val.keyStrings.integer))
            endT == header.val.typeStrings.integer + t.val.header.header.size.integer
            endK == header.val.keyStrings.integer + k.val.header.header.size.integer
            scan == ScanTypes(PyDrop(content, IF endT > endK THEN endT ELSE endK),
                              <<>>, NoGroup)
        IN  (header.ok /\ t.ok /\ k.ok) =>
                /\ dec.ok = scan.ok
                /\ dec.ok => dec.val = ResTable_package_init(header.val, t.val, k.val,
                                                             scan.val)

C20_witness ==
    /\ kind = "package" /\ pc = "decoded" /\ dec.ok
    /\ dec.val.header.keyStrings.integer < dec.val.header.typeStrings.integer
    /\ dec.val.keyStrings.header.header.size.integer
           > dec.val.typeStrings.header.header.size.integer
    /\ Len(dec.val.types) = 2

\* C21: every element of the types list of a decoded package is a non-empty
\* group that starts with a ResTable_typeSpec and continues with
\* ResTable_type values only; a package with no chunk after its string pools
\* has no group.
C21_groups_well_formed ==
    (kind = "package" /\ pc = "decoded" /\ dec.ok) =>
        \A i \in 1..Len(dec.val.types) :
            LET g == dec.val.types[i]
            IN  /\ ~g.none
                /\ Len(g.items) >= 1
                /\ g.items[1].cls = "ResTable_typeSpec"
                /\ \A j \in 2..Len(g.items) : g.items[j].cls = "ResTable_type"

\* C27: every iteration of the chunk scan raises or leaves a strictly
\* shorter scan buffer, and the scan always ends, returning or raising.
C27_scan_terminates ==
    /\ [][(kind = "scan" /\ pc = "loop" /\ pc' = "loop")
              => Len(input') < Len(input)]_vars
    /\ <>(kind = "scan" /\ pc \in {"returned", "raised"})

C27_witness ==
    /\ kind = "scan" /\ pc = "returned" /\ Len(enc.val) = 2
    /\ Len(arg.buf) > 0

C23_group_ids ==
    (kind = "package" /\ pc = "decoded" /\ dec.ok) =>
        \A i \in 1..Len(dec.val.types) :
            LET g == dec.val.types[i]
            IN  \A j \in 2..Len(g.items) :
                    g.items[j].header.id.integer = g.items[1].header.id.integer

\* C24: a decoded ResTable_typeSpec or ResTable_type has as body the bytes
\* b[headerSize : size] of its buffer b, and the remainder returned is
\* b[size:].
C24_body_extent ==
    (kind \in {"typeSpec", "type"} /\ pc = "decoded" /\ dec.ok) =>
        LET h == dec.val.header.header
        IN  /\ dec.val.body
                   = PyDrop(PyTake(input, h.size.integer), h.headerSize.integer)
            /\ dec.rest = PyDrop(input, h.size.integer)

\* C25: the blob held by a decoded ResTable_type is the chunk bytes from the
\* header's entriesStart to the header's size.
C25_entries_extent ==
    (kind = "type" /\ pc = "decoded" /\ dec.ok) =>
        dec.val.body = PyDrop(PyTake(input, dec.val.header.header.size.integer),
                              dec.val.header.entriesStart.integer)

\* C26: the ResChunk_header of every decoded string pool, typeSpec, type,
\* package and table, and of the pools and packages inside them, has
\* headerSize <= size.
C26_header_within_size ==
    (pc = "decoded" /\ dec.ok
     /\ kind \in {"pool", "typeSpec", "type", "package", "table"}) =>
        LET within(v) ==
                v.header.header.headerSize.integer <= v.header.header.size.integer
        IN  /\ within(dec.val)
            /\ kind = "package" =>
                   within(dec.val.typeStrings) /\ within(dec.val.keyStrings)
            /\ kind = "table" =>
                   /\ within(dec.val.values)
                   /\ \A i \in 1..Len(dec.val.packages) : within(dec.val.packages[i])

\* C28: a chunk wrapper constructed with its default arguments has a chunk
\* header whose headerSize and size both equal the length of the wrapper's
\* encoding.
C28_default_lengths ==
    (kind = "guard" /\ arg.path = "init" /\ pc = "decoded" /\ dec.ok
     /\ arg.t = ExpectedType(arg.where)) =>
        LET w == dec.val
            n == Len(CASE arg.where = "ResTable_header" -> ResTable_header_bytes(w)
                       [] arg.where = "ResStringPool_header" ->
                              ResStringPool_header_bytes(w)
                       [] arg.where = "ResTable_package_header" ->
                              ResTable_package_header_bytes(w)
                       [] arg.where = "ResTable_typeSpec_header" ->
                              ResTable_typeSpec_header_bytes(w)
                       [] arg.where = "ResTable_type_header" ->
                              ResTable_type_header_bytes(w))
        IN  w.header.headerSize.integer = n /\ w.header.size.integer = n

\* C29: constructing a ResStringPool leaves the caller's two lists with the
\* elements they had, and every element as it was, byte order included.
C29_arguments_unchanged ==
    (kind = "ctor" /\ pc \in {"constructed", "encoded"}) =>
        /\ input = arg.lists
        /\ \A a \in 1..Len(arg.heap) : heap[a] = arg.heap[a]

\* C30: the bytes of a constructed ResStringPool are its header followed by
\* every string ref and every style ref as four little-endian bytes.
C30_refs_little_endian ==
    (kind = "ctor" /\ pc = "encoded") =>
        enc.val = ResStringPool_header_bytes(dec.val.header)
                      \o Concat([i \in 1..Len(dec.val.strrefs) |->
                                    LE32(dec.val.strrefs[i].integer)])
                      \o Concat([i \in 1..Len(dec.val.stylerefs) |->
                                    LE32(dec.val.stylerefs[i].integer)])

====
